---- MODULE Spec2Model ----
(***************************************************************************)
(* Model of src/webui/index.js: the module that owns the single web UI     *)
(* window of IPFS Desktop.  One action per event the module reacts to; an  *)
(* action covers the handler and every promise continuation that the       *)
(* handler makes runnable, because the runtime drains the microtask queue  *)
(* before it dispatches the next event.                                    *)
(***************************************************************************)
EXTENDS Integers, Sequences, FiniteSets, TLC

VARIABLES
  window,        \* let window (line 96): NoWin or the id of a BrowserWindow
  apiAddress,    \* let apiAddress (line 97): NoAddr or a multiaddr
  url,           \* const url (line 92): the shared, mutable URL object
  store,         \* the settings store: a partial map from keys to values
  wins,          \* every BrowserWindow created so far, by id
  dockShown,     \* dock.show() / dock.hide()
  daemon,        \* what ctx.getIpfsd(true) currently reports
  ipfsdPending,  \* the number of 'ipfsd' handlers suspended on ctx.getIpfsd
  display,       \* screen.getPrimaryDisplay()
  eff,           \* what the last event did: calls made, values returned
  nav            \* history: the paths of the launchWindow calls invoked so far

vars == <<window, apiAddress, url, store, wins, dockShown, daemon, ipfsdPending, display, eff, nav>>

----------------------------------------------------------------------------
(* Bounds of the model *)

MaxWindows == 2
MaxPending == 2

----------------------------------------------------------------------------
(* Values *)

NoWin == 0

NoAddr == [proto |-> "none", host |-> "", port |-> 0]

Addrs ==
  { [proto |-> "ip4",  host |-> "127.0.0.1", port |-> 5001],
    [proto |-> "dns4", host |-> "localhost", port |-> 80] }

NoDaemon == [running |-> FALSE, apiAddr |-> NoAddr]

Daemons == {NoDaemon} \cup {[running |-> TRUE, apiAddr |-> a] : a \in Addrs}

Langs == {"en", "pl"}

Paths == {"", "/files"}

countlyDeviceId == "device-1"

CONFIG_KEY == "openWebUIAtLaunch"

DefaultWidth == 1440

DefaultHeight == 900

SizePairs == {<<800, 600>>}

DisplaySizes == {<<1280, 800>>}

\* The Display object of the runtime: its extent is under `size`.
Displays == {[id |-> 1, size |-> [width |-> s[1], height |-> s[2]]] : s \in DisplaySizes}

----------------------------------------------------------------------------
(* The settings store *)

storeGet(s, key, default) == IF key \in DOMAIN s THEN s[key] ELSE default

storeSet(s, key, value) == [k \in DOMAIN s \cup {key} |-> IF k = key THEN value ELSE s[k]]

----------------------------------------------------------------------------
(* The URL object *)

searchParamsSet(u, key, value) ==
  [u EXCEPT !.searchParams =
     [k \in DOMAIN u.searchParams \cup {key} |-> IF k = key THEN value ELSE u.searchParams[k]]]

\* String(multiaddr), as URLSearchParams.set stores it
addrString(a) == "/" \o a.proto \o "/" \o a.host \o "/tcp/" \o ToString(a.port)

\* url.toString(): the text handed to loadURL is a copy of the URL at that moment
urlToString(u) == [base |-> "webui://-/", query |-> u.searchParams, fragment |-> "#" \o u.hash]

NoUrl == [base |-> "", query |-> << >>, fragment |-> ""]

updateLanguage(u, s) == searchParamsSet(u, "lng", s["language"])

----------------------------------------------------------------------------
(* apiOrigin: multiaddr -> value of the Origin header *)

\* toUri(multiaddr, { assumeHttp: true }) for a multiaddr that ends in /tcp/<port>:
\* https and no port for 443, http and no port for 80, http and the port otherwise.
toUri(a) ==
  [ scheme |-> IF a.port = 443 THEN "https" ELSE "http",
    host   |-> a.host,
    port   |-> IF a.port = 443 \/ a.port = 80 THEN "" ELSE ToString(a.port) ]

\* new URL(uri).origin: scheme, host and the port unless it is the scheme's default
urlOrigin(u) ==
  LET isDefault == \/ u.port = ""
                   \/ (u.scheme = "http" /\ u.port = "80")
                   \/ (u.scheme = "https" /\ u.port = "443")
  IN  u.scheme \o "://" \o u.host \o (IF isDefault THEN "" ELSE ":" \o u.port)

\* apiOrigin without the guard of line 69
apiOriginNoGuard(apiMultiaddr) == urlOrigin(toUri(apiMultiaddr))

apiOrigin(apiMultiaddr) ==
  IF apiMultiaddr = NoAddr THEN "null" ELSE urlOrigin(toUri(apiMultiaddr))

\* `ipfs-desktop/${VERSION} (Electron ${ELECTRON_VERSION})`
userAgent == "ipfs-desktop/VERSION (Electron ELECTRON_VERSION)"

webuiOrigin == "webui://-"

acao == "Access-Control-Allow-Origin"

----------------------------------------------------------------------------
(* Windows *)

\* The getWindow call that created a window and waits for its ready-to-show:
\* a bare ctx.getWebUI() ("get") or the getWindow of a launchWindow call ("launch").
NoPend == [kind |-> "none", path |-> "", focus |-> FALSE, forceRefresh |-> FALSE]

\* a missing property reads as undefined, and undefined < n is false
propLess(obj, prop, n) == prop \in DOMAIN obj /\ obj[prop] < n

\* createWindow (lines 18-63): width and height come from the store, else from
\* the display; the resize and before-quit listeners are registered here.
createWindow(s, dimensions) ==
  [ alive    |-> TRUE,
    ready    |-> FALSE,
    closeL   |-> FALSE,
    loaded   |-> NoUrl,
    shown    |-> FALSE,
    width    |-> storeGet(s, "window.width",
                   IF propLess(dimensions, "width", DefaultWidth) THEN dimensions["width"] ELSE DefaultWidth),
    height   |-> storeGet(s, "window.height",
                   IF propLess(dimensions, "height", DefaultHeight) THEN dimensions["height"] ELSE DefaultHeight),
    pend     |-> NoPend ]

Ids == 1..Len(wins)

Alive(w) == w \in Ids /\ wins[w].alive

\* window.loadURL / window.webContents.loadURL on a live window
loadURL(ws, w, u) == [ws EXCEPT ![w].loaded = urlToString(u)]

\* The body of launchWindow after `const window = await getWindow()` (lines 129-148),
\* run on window w.  A call on a destroyed window throws and ends the function.
launchBody(w, path, focus, forceRefresh, u, ws, dk) ==
  LET dead == ~ws[w].alive
      u1   == IF path # "" THEN [u EXCEPT !.hash = path] ELSE u
      ws1  == IF path # "" THEN loadURL(ws, w, u1) ELSE ws
      ws2  == IF focus THEN [ws1 EXCEPT ![w].shown = TRUE] ELSE ws1
      ws3  == IF path # "" THEN loadURL(ws2, w, u1) ELSE ws2
      n    == IF path # "" THEN 2 ELSE 0
  IN  IF dead /\ forceRefresh
        THEN [url |-> u, wins |-> ws, dock |-> dk, nloads |-> 0, shown |-> FALSE, threw |-> TRUE]
      ELSE IF dead /\ path # ""
        THEN [url |-> u1, wins |-> ws, dock |-> dk, nloads |-> 0, shown |-> FALSE, threw |-> TRUE]
      ELSE IF dead /\ focus
        THEN [url |-> u, wins |-> ws, dock |-> dk, nloads |-> 0, shown |-> FALSE, threw |-> TRUE]
      ELSE [url |-> u1, wins |-> ws3, dock |-> (dk \/ focus), nloads |-> n,
            shown |-> focus, threw |-> FALSE]

----------------------------------------------------------------------------
(* Initial state: the module function has run (lines 75-97 and 151-200) *)

\* a first run: a language is stored, the launch flag was just set (line 82),
\* no window geometry has been persisted yet
store0 == [k \in {"language", CONFIG_KEY} |-> IF k = "language" THEN "en" ELSE TRUE]

\* No launchWindow call with a path was invoked yet.
NoNav == [last |-> "", ext |-> ""]

\* launchWindow is invoked with `path`: the history keeps the path of the last
\* call that had one (last), and of the last such call made through
\* ctx.launchWebUI (ext); the call of line 116 is not external.
invoked(n, path, external) ==
  IF path = "" THEN n
  ELSE [last |-> path, ext |-> IF external THEN path ELSE n.ext]

url0 == [hash |-> "/blank", searchParams |-> [k \in {"deviceId"} |-> countlyDeviceId]]

\* The record of the last event: the window it acted on or handed back (win), the
\* window it created, the number of loadURL calls it made on a live window,
\* whether it called show()/focus()/dock.show(), whether it threw, the focus
\* option of a launchWindow call, what it wrote with logger.error, and for an
\* interceptor the headers it was given and the headers it passed on.
Eff(op) ==
  [ op |-> op, win |-> NoWin, created |-> NoWin, nloads |-> 0,
    shown |-> FALSE, threw |-> FALSE, focus |-> FALSE, error |-> "",
    hin |-> << >>, hout |-> << >> ]

Init ==
  /\ window = NoWin
  /\ apiAddress = NoAddr
  /\ url = url0
  /\ store = store0
  /\ wins = << >>
  /\ dockShown = FALSE
  /\ daemon \in Daemons
  /\ ipfsdPending = 0
  /\ display \in Displays
  /\ eff = Eff("init")
  /\ nav = NoNav

----------------------------------------------------------------------------
(* getWindow and launchWindow *)

\* getWindow without the test of line 100
mustCreateAlways(win) == TRUE

\* line 100: `if (window !== null) return window`, else a window is created
mustCreate(win) == win = NoWin

\* getWindow, lines 104-120, for the call `pend`: the window is created, `window`
\* is assigned, the close and ready-to-show listeners are registered, the language
\* is refreshed and the URL is loaded; the call then waits for ready-to-show.
Create(op, pend) ==
  LET id == Len(wins) + 1
      u  == updateLanguage(url, store)
      w  == [createWindow(store, display) EXCEPT !.closeL = TRUE, !.pend = pend,
                                                 !.loaded = urlToString(u)]
  IN  /\ Len(wins) < MaxWindows
      /\ window' = id
      /\ url' = u
      /\ wins' = Append(wins, w)
      /\ eff' = [Eff(op) EXCEPT !.win = id, !.created = id, !.nloads = 1, !.focus = pend.focus]
      /\ UNCHANGED <<apiAddress, store, dockShown, daemon, ipfsdPending, display>>

\* getWindow reloading the URL into the window it already holds
GetWindowExistingReload ==
  /\ ~mustCreate(window)
  /\ wins' = IF wins[window].alive THEN loadURL(wins, window, url) ELSE wins
  /\ eff' = [Eff("getWindow") EXCEPT !.win = window, !.nloads = 1]
  /\ UNCHANGED <<window, apiAddress, url, store, dockShown, daemon, ipfsdPending, display, nav>>

\* ctx.getWebUI() while a window reference is held: resolves with it
GetWindowExisting ==
  /\ ~mustCreate(window)
  /\ eff' = [Eff("getWindow") EXCEPT !.win = window]
  /\ UNCHANGED <<window, apiAddress, url, store, wins, dockShown, daemon, ipfsdPending, display, nav>>

\* ctx.getWebUI() while no window reference is held
GetWindowCreate ==
  /\ mustCreate(window)
  /\ Create("getWindow", [NoPend EXCEPT !.kind = "get"])
  /\ UNCHANGED nav

\* launchWindow (lines 126-149) while a window reference is held: getWindow
\* resolves with it at once and the body runs in the same event
launchExisting(op, path, focus, forceRefresh) ==
  /\ ~mustCreate(window)
  /\ LET r == launchBody(window, path, focus, forceRefresh, url, wins, dockShown)
     IN  /\ url' = r.url
         /\ wins' = r.wins
         /\ dockShown' = r.dock
         /\ eff' = [Eff(op) EXCEPT
                      !.win = window, !.nloads = r.nloads, !.shown = r.shown, !.threw = r.threw,
                      !.focus = focus]
  /\ UNCHANGED <<window, apiAddress, store, daemon, ipfsdPending, display>>

\* ctx.launchWebUI(path, { focus, forceRefresh }) while a window reference is held
LaunchWindowExisting(path, focus, forceRefresh) ==
  /\ launchExisting("launchWindow", path, focus, forceRefresh)
  /\ UNCHANGED nav

\* ctx.launchWebUI(path, { focus, forceRefresh }) while no window reference is held
LaunchWindowCreate(path, focus, forceRefresh) ==
  /\ mustCreate(window)
  /\ Create("launchWindow",
            [kind |-> "launch", path |-> path, focus |-> focus, forceRefresh |-> forceRefresh])
  /\ UNCHANGED nav

\* 'ready-to-show' of window w (lines 114-117 and 123, then 129-148 of the waiting
\* launchWindow): launchWindow('/') runs on the window getWindow returns, its
\* completion resolves the waiting getWindow, which returns `window`.
readyToShow(w) ==
  /\ Alive(w)
  /\ ~wins[w].ready
  /\ LET p  == wins[w].pend
         r1 == launchBody(window, "/", TRUE, FALSE, url,
                          [wins EXCEPT ![w].ready = TRUE, ![w].pend = NoPend], dockShown)
         r2 == IF p.kind = "launch"
                 THEN launchBody(window, p.path, p.focus, p.forceRefresh, r1.url, r1.wins, r1.dock)
                 ELSE [r1 EXCEPT !.nloads = 0]
     IN  /\ url' = r2.url
         /\ wins' = r2.wins
         /\ dockShown' = r2.dock
         /\ eff' = [Eff("ready-to-show") EXCEPT
                      !.win = window, !.nloads = r1.nloads + r2.nloads,
                      !.shown = TRUE, !.threw = r2.threw]
  /\ UNCHANGED <<window, apiAddress, store, daemon, ipfsdPending, display>>

\* 'ready-to-show' of window w
ReadyToShow(w) ==
  /\ readyToShow(w)
  /\ UNCHANGED nav

----------------------------------------------------------------------------
(* launchWindow with the order of invocation recorded *)

\* paths of the navigation requests: none, and two distinct pages
NavPaths == {"", "/files", "/peers"}

\* ctx.launchWebUI(path, ...) while a window reference is held, recorded
NavLaunchExisting(path, focus, forceRefresh) ==
  /\ launchExisting("launchWindow", path, focus, forceRefresh)
  /\ nav' = invoked(nav, path, TRUE)

\* ctx.launchWebUI(path, ...) while no window reference is held, recorded
NavLaunchCreate(path, focus, forceRefresh) ==
  /\ mustCreate(window)
  /\ Create("launchWindow",
            [kind |-> "launch", path |-> path, focus |-> focus, forceRefresh |-> forceRefresh])
  /\ nav' = invoked(nav, path, TRUE)

\* 'ready-to-show' of window w, with the launchWindow('/') of line 116 recorded
NavReadyToShow(w) ==
  /\ readyToShow(w)
  /\ nav' = invoked(nav, "/", FALSE)

----------------------------------------------------------------------------
(* The launch-at-startup flag: module initialisation, the toggler, start *)

\* The store before the module function runs: the flag unset, or stored as true
\* or false by an earlier run.
StoresBefore ==
  {[k \in {"language"} |-> "en"]} \cup
  {[k \in {"language", CONFIG_KEY} |-> IF k = "language" THEN "en" ELSE b] : b \in BOOLEAN}

\* lines 76-83 writing the flag whatever the store holds
initFlagAlways(s) == storeSet(s, CONFIG_KEY, TRUE)

\* lines 76-83: `if (store.get(CONFIG_KEY, null) === null) store.set(CONFIG_KEY, true)`
initFlag(s) == IF CONFIG_KEY \notin DOMAIN s THEN storeSet(s, CONFIG_KEY, TRUE) ELSE s

\* The module function has not run yet.
InitStart ==
  /\ window = NoWin
  /\ apiAddress = NoAddr
  /\ url = url0
  /\ store \in StoresBefore
  /\ wins = << >>
  /\ dockShown = FALSE
  /\ daemon \in Daemons
  /\ ipfsdPending = 0
  /\ display \in Displays
  /\ eff = Eff("require")
  /\ nav = NoNav

\* the module function has returned its start function
Started == eff.op # "require"

\* module.exports (lines 75-97): the flag is initialised, the module state is set up
ModuleInit ==
  /\ ~Started
  /\ store' = initFlag(store)
  /\ eff' = Eff("init")
  /\ UNCHANGED <<window, apiAddress, url, wins, dockShown, daemon, ipfsdPending, display, nav>>

\* the toggler of lines 85-88, called with newValue
ToggleLaunch(newValue) ==
  /\ Started
  /\ store' = storeSet(store, CONFIG_KEY, newValue)
  /\ eff' = Eff("toggle")
  /\ UNCHANGED <<window, apiAddress, url, wins, dockShown, daemon, ipfsdPending, display, nav>>

\* the start function (lines 202-206) with the flag false: nothing is done
StartSkipped ==
  /\ Started
  /\ ~storeGet(store, CONFIG_KEY, FALSE)
  /\ eff' = Eff("start")
  /\ UNCHANGED <<window, apiAddress, url, store, wins, dockShown, daemon, ipfsdPending, display, nav>>

\* the start function with the flag true and a window reference held
StartExisting ==
  /\ Started
  /\ storeGet(store, CONFIG_KEY, FALSE)
  /\ launchExisting("start", "/", TRUE, FALSE)
  /\ UNCHANGED nav

\* the start function with the flag true and no window reference held
StartCreate ==
  /\ Started
  /\ storeGet(store, CONFIG_KEY, FALSE)
  /\ mustCreate(window)
  /\ Create("start", [kind |-> "launch", path |-> "/", focus |-> TRUE, forceRefresh |-> FALSE])
  /\ UNCHANGED nav

----------------------------------------------------------------------------
(* Window and application events *)

\* A destroyed window: it emits no further event and shows no page; what stays is
\* the getWindow call that still waits for its ready-to-show.
destroyed(win) ==
  [win EXCEPT !.alive = FALSE, !.closeL = FALSE, !.ready = FALSE, !.loaded = NoUrl,
              !.shown = FALSE, !.width = 0, !.height = 0,
              !.pend = [NoPend EXCEPT !.kind = win.pend.kind]]

\* the close listener without `window = null`
CloseHandledKeepsReference(w) ==
  /\ Alive(w)
  /\ wins[w].closeL
  /\ dockShown' = FALSE
  /\ wins' = [wins EXCEPT ![w] = destroyed(@)]
  /\ eff' = [Eff("close") EXCEPT !.win = w]
  /\ UNCHANGED <<window, apiAddress, url, store, daemon, ipfsdPending, display, nav>>

\* 'close' of window w with the once-listener of lines 106-111 still registered
CloseHandled(w) ==
  /\ Alive(w)
  /\ wins[w].closeL
  /\ LET myself == window
     IN  /\ window' = NoWin
         /\ dockShown' = FALSE
         /\ wins' = [i \in Ids |-> IF i = w \/ i = myself
                                     THEN destroyed(wins[i])
                                     ELSE wins[i]]
  /\ eff' = [Eff("close") EXCEPT !.win = w]
  /\ UNCHANGED <<apiAddress, url, store, daemon, ipfsdPending, display, nav>>

\* 'close' of window w after its close listeners were removed: the window closes
CloseUnhandled(w) ==
  /\ Alive(w)
  /\ ~wins[w].closeL
  /\ wins' = [wins EXCEPT ![w] = destroyed(@)]
  /\ eff' = [Eff("close") EXCEPT !.win = w]
  /\ UNCHANGED <<window, apiAddress, url, store, dockShown, daemon, ipfsdPending, display, nav>>

\* app 'before-quit' (lines 56-60), one listener per window ever created
BeforeQuit ==
  /\ wins' = [i \in Ids |-> [wins[i] EXCEPT !.closeL = FALSE]]
  /\ eff' = Eff("before-quit")
  /\ UNCHANGED <<window, apiAddress, url, store, dockShown, daemon, ipfsdPending, display, nav>>

\* the 'crashed' listener closing the window it belongs to
CrashedCloses(w) ==
  /\ Alive(w)
  /\ wins' = [wins EXCEPT ![w] = destroyed(@)]
  /\ eff' = [Eff("crashed") EXCEPT !.win = w, !.error = "[web ui] crashed"]
  /\ UNCHANGED <<window, apiAddress, url, store, dockShown, daemon, ipfsdPending, display, nav>>

\* webContents 'crashed' of window w (lines 42-44): logger.error and nothing else
Crashed(w) ==
  /\ Alive(w)
  /\ eff' = [Eff("crashed") EXCEPT !.win = w, !.error = "[web ui] crashed"]
  /\ UNCHANGED <<window, apiAddress, url, store, wins, dockShown, daemon, ipfsdPending, display, nav>>

\* webContents 'unresponsive' of window w (lines 46-48): logger.error and nothing else
Unresponsive(w) ==
  /\ Alive(w)
  /\ eff' = [Eff("unresponsive") EXCEPT !.win = w, !.error = "[web ui] unresponsive"]
  /\ UNCHANGED <<window, apiAddress, url, store, wins, dockShown, daemon, ipfsdPending, display, nav>>

\* 'resize' of window w to size sz (lines 50-54)
Resize(w, sz) ==
  /\ Alive(w)
  /\ <<wins[w].width, wins[w].height>> # sz
  /\ wins' = [wins EXCEPT ![w].width = sz[1], ![w].height = sz[2]]
  /\ store' = storeSet(storeSet(store, "window.width", sz[1]), "window.height", sz[2])
  /\ eff' = [Eff("resize") EXCEPT !.win = w]
  /\ UNCHANGED <<window, apiAddress, url, dockShown, daemon, ipfsdPending, display, nav>>

----------------------------------------------------------------------------
(* The daemon and the 'ipfsd' message *)

\* ipcMain 'ipfsd' (lines 162-163): the handler calls ctx.getIpfsd(true) and is
\* suspended until that promise settles.
IpfsdMessage ==
  /\ ipfsdPending < MaxPending
  /\ ipfsdPending' = ipfsdPending + 1
  /\ eff' = Eff("ipfsd")
  /\ UNCHANGED <<window, apiAddress, url, store, wins, dockShown, daemon, display, nav>>

\* the test of line 165 without the comparison with the remembered address
addrChangedAlways(ipfsd, remembered) == ipfsd.running

\* line 165: `ipfsd && ipfsd.apiAddr !== apiAddress`
addrChanged(ipfsd, remembered) == ipfsd.running /\ ipfsd.apiAddr # remembered

\* the handler without line 167
ipfsdUrlNoApi(u, addr, s) == updateLanguage(u, s)

\* lines 167-168: the api parameter, then the language
ipfsdUrl(u, addr, s) == updateLanguage(searchParamsSet(u, "api", addrString(addr)), s)

\* the handler without line 169
ipfsdLoadNever(ws, win, u) == ws

\* line 169: `if (window) window.loadURL(url.toString())`
ipfsdLoad(ws, win, u) == IF win # NoWin /\ ws[win].alive THEN loadURL(ws, win, u) ELSE ws

\* A suspended 'ipfsd' handler resumes (lines 165-170) with what the daemon
\* supervisor reports when the promise settles.
IpfsdResume ==
  /\ ipfsdPending > 0
  /\ ipfsdPending' = ipfsdPending - 1
  /\ LET ipfsd == daemon
     IN  IF addrChanged(ipfsd, apiAddress)
           THEN LET u == ipfsdUrl(url, ipfsd.apiAddr, store)
                IN  /\ apiAddress' = ipfsd.apiAddr
                    /\ url' = u
                    /\ wins' = ipfsdLoad(wins, window, u)
                    /\ eff' = [Eff("ipfsd-resume") EXCEPT
                                 !.win = window,
                                 !.nloads = IF window # NoWin /\ wins[window].alive THEN 1 ELSE 0,
                                 !.threw = (window # NoWin /\ ~wins[window].alive)]
           ELSE /\ eff' = Eff("ipfsd-resume")
                /\ UNCHANGED <<apiAddress, url, wins>>
  /\ UNCHANGED <<window, store, dockShown, daemon, display, nav>>

\* the daemon starts, stops or restarts on another address
DaemonChange(d) ==
  /\ d # daemon
  /\ daemon' = d
  /\ eff' = Eff("daemon")
  /\ UNCHANGED <<window, apiAddress, url, store, wins, dockShown, ipfsdPending, display, nav>>

\* another module stores a new UI language
SetLanguage(l) ==
  /\ l # store["language"]
  /\ store' = storeSet(store, "language", l)
  /\ eff' = Eff("language")
  /\ UNCHANGED <<window, apiAddress, url, wins, dockShown, daemon, ipfsdPending, display, nav>>

----------------------------------------------------------------------------
(* Header interception *)

\* Origin headers a request may carry before interception (none, or one of these)
RequestOrigins == {"webui://-", "http://example.com"}

RequestHeaders ==
  { [k \in {"Accept"} |-> "*/*"] } \cup
  { [k \in {"Accept", "Origin"} |-> IF k = "Origin" THEN o ELSE "*/*"] : o \in RequestOrigins }

setHeader(h, key, value) == [k \in DOMAIN h \cup {key} |-> IF k = key THEN value ELSE h[k]]

\* the interceptor setting Origin only on a request that carries none
beforeSendKeepOrigin(requestHeaders, remembered) ==
  setHeader(IF "Origin" \in DOMAIN requestHeaders THEN requestHeaders
            ELSE setHeader(requestHeaders, "Origin", apiOrigin(remembered)),
            "User-Agent", userAgent)

\* lines 184-185
beforeSend(requestHeaders, remembered) ==
  setHeader(setHeader(requestHeaders, "Origin", apiOrigin(remembered)), "User-Agent", userAgent)

\* onBeforeSendHeaders (lines 183-187)
BeforeSendHeaders(requestHeaders) ==
  /\ eff' = [Eff("onBeforeSendHeaders") EXCEPT
               !.hin = requestHeaders, !.hout = beforeSend(requestHeaders, apiAddress)]
  /\ UNCHANGED <<window, apiAddress, url, store, wins, dockShown, daemon, ipfsdPending, display, nav>>

\* Response header names as the server sent them; a value is the list of the
\* header's field values.
acaoLower == "access-control-allow-origin"

AcaoValues == {<<"*">>, <<"http://127.0.0.1:5001">>}

ResponseHeaders ==
  { [k \in {"Content-Type"} |-> <<"text/html">>] }
  \cup { [k \in {"Content-Type", acao} |-> IF k = acao THEN v ELSE <<"text/html">>] : v \in AcaoValues }
  \cup { [k \in {"Content-Type", acaoLower} |-> IF k = acaoLower THEN v ELSE <<"text/html">>] : v \in AcaoValues }

\* details of onHeadersReceived: responseHeaders is optional
ResponseDetails ==
  { [statusCode |-> 200] } \cup { [statusCode |-> 200, responseHeaders |-> h] : h \in ResponseHeaders }

\* lines 193-199: the argument of the callback
headersReceived(details) ==
  IF "responseHeaders" \in DOMAIN details
    THEN IF acao \in DOMAIN details.responseHeaders
           THEN [responseHeaders |-> setHeader(details.responseHeaders, acao, <<webuiOrigin>>)]
           ELSE [responseHeaders |-> details.responseHeaders]
    ELSE [none |-> TRUE]

\* onHeadersReceived (lines 192-200)
HeadersReceived(details) ==
  /\ eff' = [Eff("onHeadersReceived") EXCEPT !.hin = details, !.hout = headersReceived(details)]
  /\ UNCHANGED <<window, apiAddress, url, store, wins, dockShown, daemon, ipfsdPending, display, nav>>

----------------------------------------------------------------------------

\* calls into the module and the events of its windows
WindowNext ==
  \/ GetWindowExisting
  \/ GetWindowCreate
  \/ \E path \in Paths, focus \in BOOLEAN, forceRefresh \in BOOLEAN :
       LaunchWindowExisting(path, focus, forceRefresh)
  \/ \E path \in Paths, focus \in BOOLEAN, forceRefresh \in BOOLEAN :
       LaunchWindowCreate(path, focus, forceRefresh)
  \/ \E w \in Ids : ReadyToShow(w)
  \/ \E w \in Ids : CloseHandled(w)
  \/ \E w \in Ids : CloseUnhandled(w)
  \/ BeforeQuit

\* the daemon and the 'ipfsd' message
DaemonNext ==
  \/ IpfsdMessage
  \/ IpfsdResume
  \/ \E d \in Daemons : DaemonChange(d)

\* The window and the daemon address.
Next == WindowNext \/ DaemonNext

Spec == Init /\ [][Next]_vars

\* The window and its geometry: only 'resize' writes the persisted geometry and
\* only createWindow reads it.
NextGeometry ==
  \/ WindowNext
  \/ \E w \in Ids, sz \in SizePairs : Resize(w, sz)

SpecGeometry == Init /\ [][NextGeometry]_vars

\* The window, the 'ipfsd' message and the stored language, with a daemon that
\* stays as it was when the module was set up.
NextLanguage ==
  \/ WindowNext
  \/ IpfsdMessage
  \/ IpfsdResume
  \/ \E l \in Langs : SetLanguage(l)

SpecLanguage == Init /\ [][NextLanguage]_vars

\* The header interceptors read only apiAddress, which only the 'ipfsd' handler
\* writes.
NextHeaders ==
  \/ DaemonNext
  \/ \E h \in RequestHeaders : BeforeSendHeaders(h)
  \/ \E d \in ResponseDetails : HeadersReceived(d)

SpecHeaders == Init /\ [][NextHeaders]_vars

\* The window life cycle under the assumption that the runtime emits
\* ready-to-show for every window that is loaded and not closed: once a window
\* is created its ready-to-show stays enabled until it happens or the window
\* closes, so weak fairness of the event states the assumption.
SpecLive == Init /\ [][WindowNext]_vars /\ \A w \in 1..MaxWindows : WF_vars(ReadyToShow(w))

\* Navigation requests with their order of invocation, and the window created,
\* becoming ready and closing.
NextNavigation ==
  \/ \E path \in NavPaths, focus \in BOOLEAN : NavLaunchExisting(path, focus, FALSE)
  \/ \E path \in NavPaths, focus \in BOOLEAN : NavLaunchCreate(path, focus, FALSE)
  \/ \E w \in Ids : NavReadyToShow(w)
  \/ GetWindowExisting
  \/ GetWindowCreate
  \/ \E w \in Ids : CloseHandled(w)

SpecNavigation == Init /\ [][NextNavigation]_vars

\* The 'ipfsd' handler with a daemon that changes and a language that changes,
\* and a window that is created by ctx.getWebUI(), becomes ready and closes.
NextReload ==
  \/ DaemonNext
  \/ \E l \in Langs : SetLanguage(l)
  \/ GetWindowCreate
  \/ \E w \in Ids : ReadyToShow(w)
  \/ \E w \in Ids : CloseHandled(w)

SpecReload == Init /\ [][NextReload]_vars

\* The module function, its start function and the toggler, with the window
\* life cycle once the module function has returned.
NextStart ==
  \/ ModuleInit
  \/ StartSkipped
  \/ StartExisting
  \/ StartCreate
  \/ \E newValue \in BOOLEAN : ToggleLaunch(newValue)
  \/ Started /\ WindowNext

SpecStart == InitStart /\ [][NextStart]_vars

\* The window life cycle and the renderer failures: no daemon, no resize, no
\* language change.
NextErrors ==
  \/ WindowNext
  \/ \E w \in Ids : Crashed(w)
  \/ \E w \in Ids : Unresponsive(w)

SpecErrors == Init /\ [][NextErrors]_vars

----------------------------------------------------------------------------
(* Properties *)

LiveWindows == {w \in Ids : wins[w].alive}

\* A live window is the one the singleton reference names.
LiveIsCurrent == \A w \in LiveWindows : window = w

\* C1: in every reachable state at most one window that was created and has not
\* been closed exists.
C1_AtMostOneWindow == Cardinality(LiveWindows) <= 1

\* a getWindow call returned the window whose creating getWindow call is still
\* waiting for ready-to-show
C1_Witness ==
  /\ eff.op = "getWindow"
  /\ eff.created = NoWin
  /\ Alive(window)
  /\ eff.win = window
  /\ ~wins[window].ready
  /\ wins[window].pend.kind = "get"

\* C2: a getWindow call made while the singleton reference is non-null resolves
\* with exactly that window and creates no window, registers no listener and
\* loads no URL; launchWindow gets that same window from getWindow; and a window
\* is created only by a step that began with the reference null.
C2_ExistingWindowReturned ==
  [][ /\ (eff'.op = "getWindow" /\ window # NoWin) =>
           /\ eff'.win = window
           /\ eff'.created = NoWin
           /\ eff'.nloads = 0
           /\ window' = window
           /\ wins' = wins
           /\ url' = url
      /\ (eff'.op = "launchWindow" /\ window # NoWin) =>
           /\ eff'.win = window
           /\ eff'.created = NoWin
           /\ window' = window
      /\ (Len(wins') > Len(wins)) => window = NoWin ]_vars

C2_Witness ==
  /\ eff.op = "getWindow"
  /\ eff.created = NoWin
  /\ eff.win = window
  /\ Alive(window)
  /\ wins[window].ready

\* C3: when a suspended 'ipfsd' handler resumes with a daemon whose apiAddr
\* differs from the remembered address, the remembered address and the URL's api
\* parameter become that address and the live window, if any, loads the new URL.
C3_AddressLearned ==
  [][ (ipfsdPending' < ipfsdPending /\ daemon.running /\ daemon.apiAddr # apiAddress) =>
        /\ apiAddress' = daemon.apiAddr
        /\ "api" \in DOMAIN url'.searchParams
        /\ url'.searchParams["api"] = addrString(daemon.apiAddr)
        /\ Alive(window) => /\ wins'[window].loaded = urlToString(url')
                            /\ eff'.nloads = 1 ]_vars

C3_Witness ==
  /\ eff.op = "ipfsd-resume"
  /\ eff.nloads = 1
  /\ Alive(window)
  /\ apiAddress # NoAddr
  /\ wins[window].loaded.query["api"] = addrString(apiAddress)

apiParam(query) == IF "api" \in DOMAIN query THEN query["api"] ELSE "<absent>"

\* C4: in every reachable state the URL's api parameter is the remembered address
\* (absent while none is remembered), and the URL last loaded into a live window
\* carries the same api parameter.
C4_UrlReflectsAddress ==
  /\ apiParam(url.searchParams) = (IF apiAddress = NoAddr THEN "<absent>" ELSE addrString(apiAddress))
  /\ \A w \in LiveWindows : apiParam(wins[w].loaded.query) = apiParam(url.searchParams)

\* a window created after the address was learned, with two handlers suspended
C4_Witness ==
  /\ apiAddress # NoAddr
  /\ eff.created # NoWin
  /\ Alive(eff.created)
  /\ ipfsdPending >= 2

\* the Origin of each daemon address of the model, written out
ExpectedOrigin(a) ==
  IF a = NoAddr THEN "null"
  ELSE IF a.port = 5001 THEN "http://127.0.0.1:5001"
  ELSE "http://localhost"

\* C5: every intercepted outgoing request leaves with Origin 'null' while no
\* address is remembered and with the origin of the remembered multiaddr
\* otherwise, whatever Origin it carried before.
C5_OriginFromAddress ==
  eff.op = "onBeforeSendHeaders" =>
    /\ "Origin" \in DOMAIN eff.hout
    /\ eff.hout["Origin"] = ExpectedOrigin(apiAddress)

\* a request that carried its own Origin, intercepted with an address remembered
C5_Witness ==
  /\ eff.op = "onBeforeSendHeaders"
  /\ "Origin" \in DOMAIN eff.hin
  /\ apiAddress # NoAddr
  /\ eff.hout["Origin"] # eff.hin["Origin"]

\* header names are case-insensitive
isAcao(name) == name \in {acao, acaoLower}

\* C6: every Access-Control-Allow-Origin header of a response is passed on with
\* the value 'webui://-', and a response without one gets none.
C6_AcaoOverwritten ==
  (eff.op = "onHeadersReceived" /\ "responseHeaders" \in DOMAIN eff.hin) =>
    /\ "responseHeaders" \in DOMAIN eff.hout
    /\ \A k \in DOMAIN eff.hout.responseHeaders :
         isAcao(k) => /\ eff.hout.responseHeaders[k] = <<webuiOrigin>>
                      /\ \E j \in DOMAIN eff.hin.responseHeaders : isAcao(j)

\* C7 as claimed: after any close event the reference is null and the dock is
\* hidden, and getWindow and launchWindow never hand back a closed window.
C7_CloseNullsReference ==
  /\ eff.op = "close" => (window = NoWin /\ ~dockShown)
  /\ (eff.op \in {"getWindow", "launchWindow"} /\ eff.win # NoWin) => wins[eff.win].alive

\* C7 as amended: the close of a window whose close listener is still registered
\* nulls the reference and hides the dock, for every window the module creates,
\* and a call that finds the reference null creates a new window; the close of a
\* window whose close listener before-quit removed leaves the reference as it is,
\* and only such a close leaves the reference on a closed window.
C7_CloseWithListenerNullsReference ==
  [][ /\ \A w \in Ids : (wins[w].alive /\ ~wins'[w].alive) =>
             IF wins[w].closeL THEN window' = NoWin /\ ~dockShown'
                               ELSE window' = window
      /\ (eff'.op \in {"getWindow", "launchWindow"} /\ window = NoWin) =>
             /\ eff'.created = Len(wins) + 1
             /\ window' = eff'.created
             /\ wins'[window'].alive
      /\ (window' # NoWin /\ ~wins'[window'].alive /\ (window = NoWin \/ wins[window].alive)) =>
             /\ window = window'
             /\ ~wins[window].closeL ]_vars

\* the second window was closed with its listener registered
C7_Witness ==
  /\ eff.op = "close"
  /\ eff.win = 2
  /\ window = NoWin
  /\ ~wins[2].alive

\* C8 as claimed: a request intercepted while no daemon is reported leaves with
\* Origin 'null'.
C8_NoDaemonOpaqueOrigin ==
  (eff.op = "onBeforeSendHeaders" /\ ~daemon.running) => eff.hout["Origin"] = "null"

\* C8 as amended: a request intercepted while no daemon is reported leaves with
\* Origin 'null' exactly when no address has been learned so far; once an
\* address has been learned the Origin stays that of the remembered address.
C8_NoDaemonOriginFromRemembered ==
  (eff.op = "onBeforeSendHeaders" /\ ~daemon.running) =>
    /\ (eff.hout["Origin"] = "null") <=> (apiAddress = NoAddr)
    /\ apiAddress # NoAddr => eff.hout["Origin"] = ExpectedOrigin(apiAddress)

\* a request intercepted after the daemon whose address was learned went away
C8_Witness ==
  /\ eff.op = "onBeforeSendHeaders"
  /\ ~daemon.running
  /\ apiAddress # NoAddr

Min(a, b) == IF a < b THEN a ELSE b

\* C9: a resize persists the window's size; a window is created with the persisted
\* width and height, and with min(display width, 1440) and min(display height,
\* 900) while nothing is persisted.
C9_GeometryRoundTrips ==
  /\ eff.op = "resize" =>
       /\ store["window.width"] = wins[eff.win].width
       /\ store["window.height"] = wins[eff.win].height
  /\ eff.created # NoWin =>
       IF "window.width" \in DOMAIN store
         THEN /\ wins[eff.created].width = store["window.width"]
              /\ wins[eff.created].height = store["window.height"]
         ELSE /\ wins[eff.created].width = Min(display.size.width, DefaultWidth)
              /\ wins[eff.created].height = Min(display.size.height, DefaultHeight)

\* C10: every URL loaded into the window carries the language the store holds at
\* that moment as lng, and ctx.countlyDeviceId as deviceId.
C10_LoadedLanguage ==
  (eff.nloads > 0 /\ Alive(eff.win)) =>
    /\ wins[eff.win].loaded.query["lng"] = store["language"]
    /\ wins[eff.win].loaded.query["deviceId"] = countlyDeviceId

----------------------------------------------------------------------------
(* C11: a 'crashed' or 'unresponsive' event is logged and changes nothing: the
   window reference, the shared URL, the remembered API address, the settings
   store and every window (alive, loaded page, listeners, visibility) stay as
   they were, and no loadURL is issued. *)
C11_FailuresOnlyLogged ==
  [][eff'.op \in {"crashed", "unresponsive"} =>
       /\ UNCHANGED <<window, url, apiAddress, store, wins, dockShown>>
       /\ eff'.nloads = 0
       /\ eff'.error # ""]_vars

\* a window that was shown crashed, and still is the live window of the module
C11_Witness ==
  /\ eff.op = "crashed"
  /\ eff.win = window
  /\ Alive(window)
  /\ wins[window].shown
  /\ wins[window].loaded.fragment = "#/files"

(* C12: module initialisation writes the launch flag only when it is unset,
   setting it to true, and leaves a stored true or false as it is; the start
   function launches the window at '/' exactly when the flag is true (creating
   a window that waits to navigate to '/', or navigating the window held), and
   with the flag false it creates no window and touches nothing. *)
C12_LaunchFlag ==
  [][/\ (~Started /\ eff'.op = "init") =>
          /\ CONFIG_KEY \in DOMAIN store => store' = store
          /\ CONFIG_KEY \notin DOMAIN store =>
                /\ DOMAIN store' = DOMAIN store \cup {CONFIG_KEY}
                /\ store'[CONFIG_KEY] = TRUE
                /\ \A k \in DOMAIN store : store'[k] = store[k]
     /\ eff'.op = "start" =>
          /\ CONFIG_KEY \in DOMAIN store
          /\ store' = store
          /\ (store[CONFIG_KEY] /\ window = NoWin) =>
                /\ eff'.created # NoWin
                /\ window' = eff'.created
                /\ wins'[window'].alive
                /\ wins'[window'].pend =
                     [kind |-> "launch", path |-> "/", focus |-> TRUE, forceRefresh |-> FALSE]
          /\ (store[CONFIG_KEY] /\ Alive(window)) =>
                /\ eff'.created = NoWin
                /\ wins'[window].loaded.fragment = "#/"
                /\ wins'[window].shown
          /\ ~store[CONFIG_KEY] =>
                /\ UNCHANGED <<window, wins, url, dockShown>>
                /\ eff'.created = NoWin]_vars

\* start was called with the flag false and no window was ever created
C12_Witness ==
  /\ eff.op = "start"
  /\ store[CONFIG_KEY] = FALSE
  /\ window = NoWin
  /\ wins = << >>

(* C13: every getWindow call, that of a launchWindow call included, resolves
   with a window that has emitted ready-to-show and on which the initial
   launch to '/' has completed, and no window is shown or focused before its
   ready-to-show. *)
C13_ResolvedWindowIsReady ==
  /\ (/\ eff.op \in {"getWindow", "launchWindow"}
      /\ eff.created = NoWin
      /\ Alive(eff.win)) => wins[eff.win].ready
  /\ \A w \in Ids : wins[w].shown => wins[w].ready

(* C14: an 'ipfsd' handler that resumes with no daemon, or with a daemon whose
   apiAddr is the remembered address, issues no loadURL and leaves the shared
   URL, the remembered address and every window as they were; a handler that
   does load the URL or touch a window has changed the remembered address. *)
C14_NoRedundantReload ==
  [][eff'.op = "ipfsd-resume" =>
       /\ (~daemon.running \/ daemon.apiAddr = apiAddress) =>
             /\ UNCHANGED <<url, apiAddress, wins>>
             /\ eff'.nloads = 0
       /\ (eff'.nloads > 0 \/ wins' # wins \/ url' # url) =>
             /\ daemon.running
             /\ apiAddress' # apiAddress
             /\ apiAddress' = daemon.apiAddr]_vars

\* a handler resumed with the remembered address while the live window shows a
\* page loaded under another language: a reload would have changed that page
C14_Witness ==
  /\ eff.op = "ipfsd-resume"
  /\ eff.nloads = 0
  /\ daemon.running
  /\ daemon.apiAddr = apiAddress
  /\ Alive(window)
  /\ wins[window].loaded.query["lng"] # store["language"]

(* C15: navigation requests take effect in call order: when no launchWindow
   call is pending and the module holds a live window, the hash of the URL last
   loaded into that window is the path of the most recently invoked launchWindow
   call that had a non-empty path (of the most recent call of all, or of the
   most recent call made through ctx.launchWebUI), also for calls made while
   the window was being created. *)
C15_LastCallWins ==
  (/\ \A w \in Ids : wins[w].pend.kind = "none"
   /\ Alive(window)
   /\ nav.ext # "")
  => \/ wins[window].loaded.fragment = "#" \o nav.last
     \/ wins[window].loaded.fragment = "#" \o nav.ext

(* C16: a launchWindow call made with focus: false never causes a window to be
   shown or focused nor the dock to be shown: not when it runs on the window
   the module holds, and not when it created the window and completes at that
   window's ready-to-show. *)
C16_NoFocusNoShow ==
  [][/\ (eff'.op = "launchWindow" /\ eff'.created = NoWin /\ ~eff'.focus) =>
          /\ ~eff'.shown
          /\ dockShown' = dockShown
          /\ \A w \in Ids : wins'[w].shown = wins[w].shown
     /\ \A w \in Ids :
          (/\ wins[w].pend.kind = "launch"
           /\ ~wins[w].pend.focus
           /\ wins'[w].alive
           /\ wins'[w].pend.kind = "none") =>
          /\ wins'[w].shown = wins[w].shown
          /\ dockShown' = dockShown]_vars

(* C17: every getWindow and launchWindow call eventually resolves, whatever
   the interleaving with close events.  A waiting call resolves only at the
   ready-to-show of the window it waits on and a closed window emits no event,
   so no call is ever left waiting on a closed window. *)
C17_NoCallWaitsOnClosedWindow ==
  \A w \in Ids : ~wins[w].alive => wins[w].pend.kind = "none"

====
